---------------------------- MODULE Spec2Model ----------------------------
(***************************************************************************)
(* A model of the supertokens_rust client library: the endpoint resolver   *)
(* and header builder of src/lib.rs and the four operations sign_in,       *)
(* create_token, get_jwks and add_to_user, each taken from building its    *)
(* request to classifying what the transport hands back.                   *)
(*                                                                         *)
(* Representation.                                                         *)
(*  - A Rust String that the code takes apart or concatenates is a tuple   *)
(*    of one-character strings; a text that is only passed along (an       *)
(*    email, a token, a status word) is a TLA+ string.                     *)
(*  - Option<T> is a tuple: None is << >>, Some(x) is <<x>>.               *)
(*  - u64 and u32 are tuples of 16-bit limbs, least significant first, so  *)
(*    that the widths of the code are kept exactly.                        *)
(*  - A response body is its raw text together with the JSON document the  *)
(*    text parses to; decoding into a struct is computed on the document.  *)
(*  - reqwest: send() yields Ok(response) for EVERY HTTP status and Err    *)
(*    only for failures of the transport (builder, connect, timeout); an   *)
(*    Error carries a status only when made by error_for_status(), which   *)
(*    the code never calls, so the Err of send() has status None.          *)
(***************************************************************************)
EXTENDS Integers, Sequences, FiniteSets, TLC

VARIABLES st, pc, op, args, request, outcome, result

vars == <<st, pc, op, args, request, outcome, result>>

-----------------------------------------------------------------------------
(* Bounds *)

\* Longest endpoint handed to get_url / get_url_with_tenant directly.
MaxPathLen == 2

-----------------------------------------------------------------------------
(* Option, strings *)

None == << >>
Some(x) == <<x>>
IsSome(o) == Len(o) = 1
IsNone(o) == Len(o) = 0

RECURSIVE Concat(_)
\* format!/+ : the concatenation of a tuple of strings
Concat(parts) ==
    IF Len(parts) = 0 THEN << >> ELSE Head(parts) \o Concat(Tail(parts))

\* All strings over alphabet A of length at most n
StringsUpTo(A, n) == UNION {[1..k -> A] : k \in 0..n}

S_public == <<"p","u","b","l","i","c">>
S_4_0 == <<"4",".","0">>
S_slash == <<"/">>
S_slash_appid == <<"/","a","p","p","i","d","-">>

-----------------------------------------------------------------------------
(* src/constants.rs *)

ENDPOINT_CORE_JWKS ==
    <<".","w","e","l","l","-","k","n","o","w","n","/","j","w","k","s",".","j","s","o","n">>
ENDPOINT_JWT == <<"r","e","c","i","p","e","/","j","w","t">>
ENDPOINT_RECIPE_SIGNIN == <<"r","e","c","i","p","e","/","s","i","g","n","i","n">>
ADD_ROLE_TO_USER_ENDPOINT ==
    <<"r","e","c","i","p","e","/","u","s","e","r","/","r","o","l","e">>

-----------------------------------------------------------------------------
(* Fixed-width unsigned integers *)

Radix == 2 ^ 16

\* The u64 with value n, for n below 2^31
U64(n) == <<n % Radix, (n \div Radix) % Radix, 0, 0>>
\* The u32 with value n, for n below 2^31
U32(n) == <<n % Radix, (n \div Radix) % Radix>>
\* `x as u32` for a u64 x: the low 32 bits
U64_as_u32_wrapping(x) == <<x[1], x[2]>>
\* A u32 widened to u64 (to compare a u32 with a u64 by value)
U32_to_U64(x) == <<x[1], x[2], 0, 0>>

\* Duration::new(secs, nanos)
Duration_new(secs, nanos) == [secs |-> secs, nanos |-> nanos]
\* Duration::as_secs: the whole seconds, the sub-second part dropped
as_secs(d) == d.secs

DEFAULT_JWT_EXPIRATION_TIME == Duration_new(U64(86400), 0)

-----------------------------------------------------------------------------
(* src/lib.rs : configuration *)

SuperTokens_default ==
    [app_id |-> S_public, tenant_id |-> S_public, core_domain |-> << >>,
     api_key |-> << >>, cdi_version |-> S_4_0]

\* The configurations explored: the defaults, and values that differ from
\* them, among them texts that are no valid header value.
SuperTokensConfigs ==
    {SuperTokens_default} \cup
    [app_id : {S_public, <<"a">>},
     tenant_id : {S_public, <<"t">>},
     core_domain : {<< >>, <<"h">>},
     api_key : {<< >>, <<"k">>, <<"k","\n">>},
     cdi_version : {S_4_0, <<"4","\n">>}]

\* Result values: what a call hands back, or the panic that ends it
Ok(v) == [kind |-> "Ok", variant |-> "Ok", value |-> Some(v)]
Err(variant) == [kind |-> "Err", variant |-> variant, value |-> None]
ErrWith(variant, v) == [kind |-> "Err", variant |-> variant, value |-> Some(v)]
Panic(msg) == [kind |-> "Panic", variant |-> msg, value |-> None]
NoResult == [kind |-> "None", variant |-> "None", value |-> None]

\* endpoint.chars().next().unwrap() : panics on the empty string
first_char(endpoint) == IF Len(endpoint) = 0 THEN None ELSE Some(endpoint[1])

\* SuperTokens::get_url
get_url(self, endpoint) ==
    IF IsNone(first_char(endpoint)) THEN Panic("unwrap on None")
    ELSE IF first_char(endpoint)[1] = "/" THEN Panic("assert_ne")
    ELSE Ok(Concat(<<self.core_domain, S_slash_appid, self.app_id,
                     S_slash, endpoint>>))

\* A get_url_with_tenant that forgets the tenant segment
get_url_with_tenant_untenanted(self, endpoint) == get_url(self, endpoint)

\* SuperTokens::get_url_with_tenant
get_url_with_tenant(self, endpoint) ==
    IF IsNone(first_char(endpoint)) THEN Panic("unwrap on None")
    ELSE IF first_char(endpoint)[1] = "/" THEN Panic("assert_ne")
    ELSE Ok(Concat(<<self.core_domain, S_slash_appid, self.app_id,
                     S_slash, self.tenant_id, S_slash, endpoint>>))

\* enum Recipe
Recipes == {"EmailPassword", "PasswordLess", "ThirdParty", "Jwt"}

\* impl From<Recipe> for HeaderValue
Recipe_into_HeaderValue(value) ==
    CASE value = "EmailPassword" -> <<"e","m","a","i","l","p","a","s","s","w","o","r","d">>
      [] value = "PasswordLess" -> <<"p","a","s","s","w","o","r","d","l","e","s","s">>
      [] value = "ThirdParty" -> <<"t","h","i","r","d","p","a","r","t","y">>
      [] value = "Jwt" -> <<"j","w","t">>

\* The control characters (bytes below 32 other than tab, and 127) that the
\* texts of the model are drawn over
ControlChars == {"\n", "\r"}

\* HeaderValue::from_str(s): Some(s) when no byte is a control character,
\* None (an Err, on which .expect panics) otherwise
HeaderValue_from_str(s) ==
    IF \A i \in 1..Len(s) : s[i] \notin ControlChars THEN Some(s) ELSE None

EmptyHeaderMap == [n \in {} |-> << >>]
\* HeaderMap::insert : the value of the name is set (replaced if present)
HeaderMap_insert(headers, name, value) ==
    [n \in DOMAIN headers \cup {name} |->
        IF n = name THEN value ELSE headers[n]]

\* A get_headers that writes the api key under the cdi-version name too
get_headers_swapped(self, recipe) ==
    LET h0 == IF IsSome(recipe)
              THEN HeaderMap_insert(EmptyHeaderMap, "rid",
                                    Recipe_into_HeaderValue(recipe[1]))
              ELSE EmptyHeaderMap
        api_key == HeaderValue_from_str(self.api_key)
        cdi_version == HeaderValue_from_str(self.cdi_version)
    IN  IF IsNone(api_key) THEN Panic("Should be valid")
        ELSE IF IsNone(cdi_version) THEN Panic("Should be valid")
        ELSE Ok(HeaderMap_insert(HeaderMap_insert(h0, "api-key", api_key[1]),
                                 "cdi-version", api_key[1]))

\* SuperTokens::get_headers
get_headers(self, recipe) ==
    LET h0 == IF IsSome(recipe)
              THEN HeaderMap_insert(EmptyHeaderMap, "rid",
                                    Recipe_into_HeaderValue(recipe[1]))
              ELSE EmptyHeaderMap
        api_key == HeaderValue_from_str(self.api_key)
        cdi_version == HeaderValue_from_str(self.cdi_version)
    IN  IF IsNone(api_key) THEN Panic("Should be valid")
        ELSE IF IsNone(cdi_version) THEN Panic("Should be valid")
        ELSE Ok(HeaderMap_insert(HeaderMap_insert(h0, "api-key", api_key[1]),
                                 "cdi-version", cdi_version[1]))

-----------------------------------------------------------------------------
(* The wire: requests, response bodies, what send() hands back *)

S_application_json ==
    <<"a","p","p","l","i","c","a","t","i","o","n","/","j","s","o","n">>

NoRequest == [method |-> "none", url |-> << >>, headers |-> EmptyHeaderMap,
              body |-> None]

\* RequestBuilder::json : the body, and a content-type unless one is set
RequestBuilder_json(req, body) ==
    [req EXCEPT !.body = Some(body),
                !.headers = IF "content-type" \in DOMAIN req.headers
                            THEN req.headers
                            ELSE HeaderMap_insert(req.headers, "content-type",
                                                  S_application_json)]

\* RequestBuilder::headers : every given header replaces the one of its name
RequestBuilder_headers(req, headers) ==
    [req EXCEPT !.headers =
        [n \in DOMAIN req.headers \cup DOMAIN headers |->
            IF n \in DOMAIN headers THEN headers[n] ELSE req.headers[n]]]

\* Client::post / put / get
RequestBuilder_new(method, url) ==
    [method |-> method, url |-> url, headers |-> EmptyHeaderMap, body |-> None]

\* JSON documents, by the members the response structs read
EmptyObject ==
    [isObject |-> TRUE, status |-> None, user |-> None, recipeUserId |-> None,
     jwt |-> None, didUserAlreadyHaveRole |-> None, keys |-> None]
NotJson == [EmptyObject EXCEPT !.isObject = FALSE]

\* A user / key document; complete = it has every member of User / Jwk
UserDoc == [id |-> "u1", complete |-> TRUE]
PartialUserDoc == [id |-> "u1", complete |-> FALSE]
KeyDoc == [kid |-> "k1", complete |-> TRUE]
PartialKeyDoc == [kid |-> "k1", complete |-> FALSE]

Bodies ==
    { [text |-> "", doc |-> NotJson],
      [text |-> "oops", doc |-> NotJson],
      [text |-> "{}", doc |-> EmptyObject],
      [text |-> "{status:OK}", doc |-> [EmptyObject EXCEPT !.status = Some("OK")]],
      [text |-> "{status:OK,user:U,recipeUserId:r1}",
       doc |-> [EmptyObject EXCEPT !.status = Some("OK"), !.user = Some(UserDoc),
                                   !.recipeUserId = Some("r1")]],
      [text |-> "{status:OK,user:{id:u1},recipeUserId:r1}",
       doc |-> [EmptyObject EXCEPT !.status = Some("OK"),
                                   !.user = Some(PartialUserDoc),
                                   !.recipeUserId = Some("r1")]],
      [text |-> "{status:WRONG_CREDENTIALS_ERROR}",
       doc |-> [EmptyObject EXCEPT !.status = Some("WRONG_CREDENTIALS_ERROR")]],
      [text |-> "{status:OK,jwt:tok}",
       doc |-> [EmptyObject EXCEPT !.status = Some("OK"), !.jwt = Some("tok")]],
      [text |-> "{status:UNSUPPORTED_ALGORITHM_ERROR}",
       doc |-> [EmptyObject EXCEPT !.status = Some("UNSUPPORTED_ALGORITHM_ERROR")]],
      [text |-> "{status:OK,didUserAlreadyHaveRole:true}",
       doc |-> [EmptyObject EXCEPT !.status = Some("OK"),
                                   !.didUserAlreadyHaveRole = Some(TRUE)]],
      [text |-> "{status:OK,didUserAlreadyHaveRole:false}",
       doc |-> [EmptyObject EXCEPT !.status = Some("OK"),
                                   !.didUserAlreadyHaveRole = Some(FALSE)]],
      [text |-> "{status:UNKNOWN_ROLE_ERROR}",
       doc |-> [EmptyObject EXCEPT !.status = Some("UNKNOWN_ROLE_ERROR")]],
      [text |-> "{keys:[K]}",
       doc |-> [EmptyObject EXCEPT !.keys = Some(<<KeyDoc>>)]],
      [text |-> "{keys:[{kid:k1}]}",
       doc |-> [EmptyObject EXCEPT !.keys = Some(<<PartialKeyDoc>>)]] }

HttpStatuses == {200, 201, 400, 401, 404, 500, 503}

\* What awaiting send() yields.  A response of any status is Ok; readable
\* says whether the body then arrives whole (text() and json() fail if not).
\* A failure of the transport is an Err, and carries no status.
Responses ==
    [kind : {"response"}, status : HttpStatuses, body : Bodies,
     readable : BOOLEAN]
Failures ==
    [kind : {"failure"}, cause : {"builder", "connect", "timeout"},
     err_status : {None}]
SendOutcomes == Responses \cup Failures
NoOutcome == [kind |-> "none"]

\* Response::text
Response_text(resp) == IF resp.readable THEN Some(resp.body.text) ELSE None

\* Response::json::<SignInResponseRaw>
json_SignInResponseRaw(resp) ==
    LET d == resp.body.doc IN
    IF ~resp.readable \/ ~d.isObject \/ IsNone(d.status) THEN None
    ELSE IF IsSome(d.user) /\ ~d.user[1].complete THEN None
    ELSE Some([status |-> d.status[1], user |-> d.user,
               recipe_user_id |-> d.recipeUserId])

\* Response::json::<JwtResponsePayload>
json_JwtResponsePayload(resp) ==
    LET d == resp.body.doc IN
    IF ~resp.readable \/ ~d.isObject \/ IsNone(d.status) THEN None
    ELSE Some([status |-> d.status[1], jwt |-> d.jwt])

\* Response::json::<AddRoleToUserResponse>
json_AddRoleToUserResponse(resp) ==
    LET d == resp.body.doc IN
    IF ~resp.readable \/ ~d.isObject \/ IsNone(d.status) THEN None
    ELSE Some([status |-> d.status[1],
               did_user_already_have_role |-> d.didUserAlreadyHaveRole])

\* Response::json::<Jwks>
json_Jwks(resp) ==
    LET d == resp.body.doc IN
    IF ~resp.readable \/ ~d.isObject \/ IsNone(d.keys) THEN None
    ELSE IF \E i \in 1..Len(d.keys[1]) : ~d.keys[1][i].complete THEN None
    ELSE Some([keys |-> d.keys[1]])

\* StatusCode::is_server_error
is_server_error(s) == 500 <= s /\ s < 600

-----------------------------------------------------------------------------
(* src/recipe/email_password/sign_in.rs *)

\* sign_in, up to send(): the request, or the panic of a helper
sign_in_request(self, email, password) ==
    LET url == get_url_with_tenant(self, ENDPOINT_RECIPE_SIGNIN)
        headers == get_headers(self, Some("EmailPassword"))
    IN  IF url.kind = "Panic" THEN url
        ELSE IF headers.kind = "Panic" THEN headers
        ELSE Ok(RequestBuilder_json(
                    RequestBuilder_headers(
                        RequestBuilder_new("POST", url.value[1]),
                        headers.value[1]),
                    [email |-> email, password |-> password]))

\* A sign_in whose status match has lost its 401 arm
sign_in_respond_without_401(resp) ==
    IF resp.kind = "failure" THEN Err("Unknown")
    ELSE IF resp.status = 200 THEN
        LET json == json_SignInResponseRaw(resp) IN
        IF IsNone(json) THEN Panic("Invalid JSON struct")
        ELSE IF json[1].status /= "OK" THEN Err("WrongCredentials")
        ELSE IF IsNone(json[1].recipe_user_id) THEN Panic("Is valid here")
        ELSE IF IsNone(json[1].user) THEN Panic("Is valid here")
        ELSE Ok([user_id |-> json[1].recipe_user_id[1], user |-> json[1].user[1]])
    ELSE CASE resp.status = 400 ->
                ErrWith("BadRequest",
                        IF IsSome(Response_text(resp)) THEN Response_text(resp)[1]
                        ELSE "Bad Request")
           [] resp.status = 404 -> Err("NotFound")
           [] resp.status = 500 -> Err("InternalError")
           [] OTHER -> Err("Unknown")

\* sign_in, from what send() yields to the value returned
sign_in_respond(resp) ==
    IF resp.kind = "failure" THEN Err("Unknown")
    ELSE IF resp.status = 200 THEN
        LET json == json_SignInResponseRaw(resp) IN
        IF IsNone(json) THEN Panic("Invalid JSON struct")
        ELSE IF json[1].status /= "OK" THEN Err("WrongCredentials")
        ELSE IF IsNone(json[1].recipe_user_id) THEN Panic("Is valid here")
        ELSE IF IsNone(json[1].user) THEN Panic("Is valid here")
        ELSE Ok([user_id |-> json[1].recipe_user_id[1], user |-> json[1].user[1]])
    ELSE CASE resp.status = 400 ->
                ErrWith("BadRequest",
                        IF IsSome(Response_text(resp)) THEN Response_text(resp)[1]
                        ELSE "Bad Request")
           [] resp.status = 401 -> Err("InvalidApiKey")
           [] resp.status = 404 -> Err("NotFound")
           [] resp.status = 500 -> Err("InternalError")
           [] OTHER -> Err("Unknown")

-----------------------------------------------------------------------------
(* src/recipe/jwt.rs *)

\* JwtCreationRequest::new, under its wire (camelCase) names
JwtCreationRequest_new(payload, domain, expiration_time_seconds) ==
    [payload |-> payload, algorithm |-> "RS256", jwksDomain |-> domain,
     validity |-> expiration_time_seconds, useStaticSigningKey |-> TRUE]

\* Option::unwrap_or
unwrap_or(o, default) == IF IsSome(o) THEN o[1] ELSE default

\* create_token, up to send()
create_token_request(self, payload, expiration_time) ==
    LET body == JwtCreationRequest_new(
                    payload, self.core_domain,
                    U64_as_u32_wrapping(
                        as_secs(unwrap_or(expiration_time,
                                          DEFAULT_JWT_EXPIRATION_TIME))))
        url == get_url(self, ENDPOINT_JWT)
        headers == get_headers(self, Some("Jwt"))
    IN  IF url.kind = "Panic" THEN url
        ELSE IF headers.kind = "Panic" THEN headers
        ELSE Ok(RequestBuilder_json(
                    RequestBuilder_headers(
                        RequestBuilder_new("POST", url.value[1]),
                        headers.value[1]),
                    body))

\* create_token, from what send() yields to the value returned
create_token_respond(resp) ==
    IF resp.kind = "failure" THEN
        IF IsNone(resp.err_status) THEN Err("Unknown")
        ELSE CASE resp.err_status[1] = 400 -> ErrWith("BadRequest", "Bad Request")
               [] resp.err_status[1] = 404 -> Err("NotFound")
               [] resp.err_status[1] = 500 -> Err("InternalError")
               [] OTHER -> Err("Unknown")
    ELSE LET resp_payload == json_JwtResponsePayload(resp) IN
        IF IsNone(resp_payload) THEN Panic("Json for status 200")
        ELSE IF resp_payload[1].status = "OK" THEN
            IF IsNone(resp_payload[1].jwt) THEN Panic("Is here since status is OK")
            ELSE Ok(resp_payload[1].jwt[1])
        ELSE Err("UnsupportedAlgorithm")

\* get_jwks, up to the await of reqwest::get
get_jwks_request(core_url) ==
    RequestBuilder_new("GET", core_url \o ENDPOINT_CORE_JWKS)

\* get_jwks, from what reqwest::get yields to the value returned
get_jwks_respond(resp) ==
    IF resp.kind = "response" THEN
        LET v == json_Jwks(resp) IN
        IF IsSome(v) THEN Ok(v[1]) ELSE Err("ResponseFormat")
    ELSE IF IsSome(resp.err_status) /\ is_server_error(resp.err_status[1])
         THEN Err("Internal")
         ELSE Err("Unknown")

-----------------------------------------------------------------------------
(* src/roles.rs *)

\* AddRoleToUserRequest::new, under its wire (camelCase) names
AddRoleToUserRequest_new(role, user_id) == [userId |-> user_id, role |-> role]

\* add_to_user, up to send()
add_to_user_request(user_id, role_id, core_url) ==
    RequestBuilder_json(
        RequestBuilder_new("PUT", core_url \o ADD_ROLE_TO_USER_ENDPOINT),
        AddRoleToUserRequest_new(role_id, user_id))

\* add_to_user, from what send() yields to the value returned
add_to_user_respond(resp) ==
    IF resp.kind = "failure" THEN
        IF IsSome(resp.err_status) THEN
            CASE resp.err_status[1] = 400 -> ErrWith("BadRequest", "reqwest::Error")
              [] resp.err_status[1] = 401 -> Err("InvalidApiKey")
              [] resp.err_status[1] = 404 -> Err("UserNotFound")
              [] resp.err_status[1] = 500 -> Err("InternalError")
              [] OTHER -> Err("Unknown")
        ELSE Err("Unknown")
    ELSE LET resp_ok == json_AddRoleToUserResponse(resp) IN
        IF IsNone(resp_ok) THEN Panic("Should match struct")
        ELSE IF resp_ok[1].status /= "OK" THEN Err("UnknownRole")
        ELSE IF IsNone(resp_ok[1].did_user_already_have_role)
             THEN Panic("Field is defined for this state")
             ELSE Ok(resp_ok[1].did_user_already_have_role[1])

-----------------------------------------------------------------------------
(* The inputs of the calls *)

Emails == {"hello@mail.com"}
Passwords == {"pwd123", "wrong"}
Payloads == {"claims"}
UserIds == {"u1"}
RoleIds == {"admin", "ghost"}
CoreUrls == {<<"h">>, <<"h","/">>}
PathAlphabet == {"/", "r"}
Paths == StringsUpTo(PathAlphabet, MaxPathLen)

TwoTo32Minus1 == <<Radix - 1, Radix - 1, 0, 0>>
TwoTo32 == <<0, 0, 1, 0>>
TwoTo32Plus86400 == <<86400 % Radix, 86400 \div Radix, 1, 0>>

ExpirationTimes ==
    { None,
      Some(Duration_new(U64(0), 0)),
      Some(Duration_new(U64(3600), 999999999)),
      Some(Duration_new(U64(86400), 0)),
      Some(Duration_new(TwoTo32Minus1, 0)),
      Some(Duration_new(TwoTo32, 0)),
      Some(Duration_new(TwoTo32Plus86400, 0)) }

-----------------------------------------------------------------------------
(* The state machine: one call, from its entry to its return.  The calls   *)
(* share no state (the configuration is only read), so a behaviour is one  *)
(* call made on one configuration.                                         *)

Init ==
    /\ st \in SuperTokensConfigs
    /\ pc = "idle"
    /\ op = "none"
    /\ args = << >>
    /\ request = NoRequest
    /\ outcome = NoOutcome
    /\ result = NoResult

\* A call of a helper: it returns (or panics) at once
Returns(name, a, r) ==
    /\ op' = name /\ args' = a
    /\ request' = NoRequest /\ outcome' = NoOutcome
    /\ result' = r /\ pc' = "done"
    /\ UNCHANGED st

\* An operation up to its await: the request is sent, or a helper panicked
Sends(name, a, r) ==
    /\ op' = name /\ args' = a
    /\ outcome' = NoOutcome
    /\ IF r.kind = "Panic"
       THEN request' = NoRequest /\ result' = r /\ pc' = "done"
       ELSE request' = r.value[1] /\ result' = NoResult /\ pc' = "awaiting"
    /\ UNCHANGED st

\* An operation from its await to its return
Resumes(out, r) ==
    /\ outcome' = out /\ result' = r /\ pc' = "done"
    /\ UNCHANGED <<st, op, args, request>>

GetUrl ==
    /\ pc = "idle"
    /\ \E p \in Paths : Returns("get_url", [endpoint |-> p], get_url(st, p))

GetUrlWithTenant ==
    /\ pc = "idle"
    /\ \E p \in Paths :
        Returns("get_url_with_tenant", [endpoint |-> p],
                get_url_with_tenant(st, p))

GetHeaders ==
    /\ pc = "idle"
    /\ \E r \in {None} \cup {Some(x) : x \in Recipes} :
        Returns("get_headers", [recipe |-> r], get_headers(st, r))

SignIn ==
    /\ pc = "idle"
    /\ \E e \in Emails, p \in Passwords :
        Sends("sign_in", [email |-> e, password |-> p],
              sign_in_request(st, e, p))

SignInResume ==
    /\ pc = "awaiting" /\ op = "sign_in"
    /\ \E out \in SendOutcomes : Resumes(out, sign_in_respond(out))

CreateToken ==
    /\ pc = "idle"
    /\ \E p \in Payloads, t \in ExpirationTimes :
        Sends("create_token", [payload |-> p, expiration_time |-> t],
              create_token_request(st, p, t))

CreateTokenResume ==
    /\ pc = "awaiting" /\ op = "create_token"
    /\ \E out \in SendOutcomes : Resumes(out, create_token_respond(out))

GetJwks ==
    /\ pc = "idle"
    /\ \E u \in CoreUrls :
        Sends("get_jwks", [core_url |-> u], Ok(get_jwks_request(u)))

GetJwksResume ==
    /\ pc = "awaiting" /\ op = "get_jwks"
    /\ \E out \in SendOutcomes : Resumes(out, get_jwks_respond(out))

AddToUser ==
    /\ pc = "idle"
    /\ \E u \in UserIds, r \in RoleIds, c \in CoreUrls :
        Sends("add_to_user", [user_id |-> u, role_id |-> r, core_url |-> c],
              Ok(add_to_user_request(u, r, c)))

AddToUserResume ==
    /\ pc = "awaiting" /\ op = "add_to_user"
    /\ \E out \in SendOutcomes : Resumes(out, add_to_user_respond(out))

Next ==
    \/ GetUrl
    \/ GetUrlWithTenant
    \/ GetHeaders
    \/ SignIn
    \/ SignInResume
    \/ CreateToken
    \/ CreateTokenResume
    \/ GetJwks
    \/ GetJwksResume
    \/ AddToUser
    \/ AddToUserResume

Spec == Init /\ [][Next]_vars

-----------------------------------------------------------------------------
(* Properties *)

Operations == {"sign_in", "create_token", "get_jwks", "add_to_user"}

\* The call of operation o has returned after the service answered status s
Responded(o, s) ==
    /\ pc = "done" /\ op = o
    /\ outcome.kind = "response" /\ outcome.status = s

\* The body of the answer arrived whole and is a JSON object with a status
BodyHasStatus ==
    /\ outcome.readable
    /\ outcome.body.doc.isObject
    /\ IsSome(outcome.body.doc.status)

ResultIsErr(variant) == result.kind = "Err" /\ result.variant = variant

NonOkError(o) ==
    CASE o = "sign_in" -> "WrongCredentials"
      [] o = "create_token" -> "UnsupportedAlgorithm"
      [] o = "add_to_user" -> "UnknownRole"

\* C1 (as stated): in sign_in, create_token and add_to_user an answer of
\* status 200 whose body status is "OK" yields the success result, and one
\* whose body status is any other string yields the operation's non-OK
\* error.
C1_Original ==
    \A o \in {"sign_in", "create_token", "add_to_user"} :
        (Responded(o, 200) /\ BodyHasStatus) =>
            IF outcome.body.doc.status[1] = "OK"
            THEN result.kind = "Ok"
            ELSE ResultIsErr(NonOkError(o))

SignInStatusError(s) ==
    CASE s = 400 -> "BadRequest"
      [] s = 401 -> "InvalidApiKey"
      [] s = 404 -> "NotFound"
      [] s = 500 -> "InternalError"

\* C2: in sign_in an answer of status 400, 401, 404 or 500 yields
\* BadRequest, InvalidApiKey, NotFound or InternalError respectively,
\* whatever the body is (and whether or not it arrives whole).
C2_SignInStatusErrors ==
    \A s \in {400, 401, 404, 500} :
        Responded("sign_in", s) => ResultIsErr(SignInStatusError(s))

\* C2's case: a 401 whose body reads like a success is still InvalidApiKey
C2_Witness ==
    /\ Responded("sign_in", 401)
    /\ outcome.readable
    /\ outcome.body.doc.status = Some("OK")
    /\ IsSome(outcome.body.doc.user)
    /\ ResultIsErr("InvalidApiKey")

\* C3 (as stated): when the service answers with an error status,
\* create_token returns BadRequest (400), NotFound (404), InternalError
\* (500); add_to_user returns BadRequest (400), InvalidApiKey (401),
\* UserNotFound (404), InternalError (500); get_jwks returns Internal (500);
\* whatever the body is.
C3_Original ==
    /\ Responded("create_token", 400) => ResultIsErr("BadRequest")
    /\ Responded("create_token", 404) => ResultIsErr("NotFound")
    /\ Responded("create_token", 500) => ResultIsErr("InternalError")
    /\ Responded("add_to_user", 400) => ResultIsErr("BadRequest")
    /\ Responded("add_to_user", 401) => ResultIsErr("InvalidApiKey")
    /\ Responded("add_to_user", 404) => ResultIsErr("UserNotFound")
    /\ Responded("add_to_user", 500) => ResultIsErr("InternalError")
    /\ Responded("get_jwks", 500) => ResultIsErr("Internal")

\* C4 (as stated): in every operation an answer whose status is none of
\* 200, 400, 401, 404, 500, and a failure of the transport that carries no
\* status, yield Unknown; in create_token status 401 yields Unknown too.
C4_Original ==
    /\ \A o \in Operations :
        /\ (/\ pc = "done" /\ op = o /\ outcome.kind = "response"
            /\ outcome.status \notin {200, 400, 401, 404, 500})
           => ResultIsErr("Unknown")
        /\ (/\ pc = "done" /\ op = o /\ outcome.kind = "failure"
            /\ IsNone(outcome.err_status))
           => ResultIsErr("Unknown")
    /\ Responded("create_token", 401) => ResultIsErr("Unknown")

\* C5 (as stated): whatever send() yields (any status, any body, any
\* failure of the transport), each of the four operations returns a value,
\* its success or one of its errors, and never aborts.
C5_Original ==
    (pc = "done" /\ op \in Operations /\ outcome.kind /= "none")
        => result.kind \in {"Ok", "Err"}

RidOf(o) ==
    CASE o = "sign_in" -> <<"e","m","a","i","l","p","a","s","s","w","o","r","d">>
      [] o = "create_token" -> <<"j","w","t">>

\* C6 (as stated): every request sent by the four operations carries
\* api-key and cdi-version; rid is carried by sign_in (emailpassword) and
\* create_token (jwt) and by no request of get_jwks or add_to_user.
C6_Original ==
    (op \in Operations /\ request.method /= "none") =>
        /\ "api-key" \in DOMAIN request.headers
        /\ "cdi-version" \in DOMAIN request.headers
        /\ "rid" \in DOMAIN request.headers
              <=> op \in {"sign_in", "create_token"}
        /\ "rid" \in DOMAIN request.headers
              => request.headers["rid"] = RidOf(op)

AppScopedUrl(p) ==
    st.core_domain \o <<"/","a","p","p","i","d","-">> \o st.app_id
        \o <<"/">> \o p
TenantScopedUrl(p) ==
    st.core_domain \o <<"/","a","p","p","i","d","-">> \o st.app_id
        \o <<"/">> \o st.tenant_id \o <<"/">> \o p

BeginsWithSlash(p) == Len(p) > 0 /\ p[1] = "/"

LowerCaseRecipe(r) ==
    CASE r = "EmailPassword" -> <<"e","m","a","i","l","p","a","s","s","w","o","r","d">>
      [] r = "PasswordLess" -> <<"p","a","s","s","w","o","r","d","l","e","s","s">>
      [] r = "ThirdParty" -> <<"t","h","i","r","d","p","a","r","t","y">>
      [] r = "Jwt" -> <<"j","w","t">>

\* The header set the claim describes, for the call recorded in args
HeadersAsClaimed ==
    /\ result.kind = "Ok"
    /\ LET h == result.value[1] IN
        /\ "api-key" \in DOMAIN h /\ h["api-key"] = st.api_key
        /\ "cdi-version" \in DOMAIN h /\ h["cdi-version"] = st.cdi_version
        /\ "rid" \in DOMAIN h <=> IsSome(args.recipe)
        /\ IsSome(args.recipe) => h["rid"] = LowerCaseRecipe(args.recipe[1])

\* No character is a control character (a line break, ...)
IsHeaderText(s) == \A i \in 1..Len(s) : s[i] \notin {"\n", "\r"}

\* C8 (as stated): for every configuration and every optional Capability,
\* get_headers returns a header set with api-key = api_key, cdi-version =
\* cdi_version, and rid present exactly when a Capability is given, then
\* with the lower-case recipe string as its value.
C8_Original ==
    (pc = "done" /\ op = "get_headers") => HeadersAsClaimed

\* C8 (amended): for every configuration whose api_key and cdi_version
\* are valid header values (no control character such as a line break),
\* and every optional Capability, get_headers returns that header set; for
\* any other configuration get_headers aborts instead of returning.
C8_Amended ==
    (pc = "done" /\ op = "get_headers") =>
        IF IsHeaderText(st.api_key) /\ IsHeaderText(st.cdi_version)
        THEN HeadersAsClaimed
        ELSE result.kind = "Panic"

\* C8's case: headers were built for a Capability, with a key and a version
\* that differ
C8_Witness ==
    /\ pc = "done" /\ op = "get_headers"
    /\ args.recipe = Some("PasswordLess")
    /\ st.api_key = <<"k">> /\ st.cdi_version = <<"4",".","0">>
    /\ result.kind = "Ok"
    /\ result.value[1]["rid"] = <<"p","a","s","s","w","o","r","d","l","e","s","s">>

\* C9 (as stated): the validity of the create_token request body is 86400
\* when no expiration is given, and the whole seconds of the given
\* duration for every given duration.
C9_Original ==
    (op = "create_token" /\ request.method /= "none") =>
        U32_to_U64(request.body[1].validity) =
            IF IsNone(args.expiration_time)
            THEN U64(86400)
            ELSE args.expiration_time[1].secs

\* C10 (as stated): in sign_in, create_token and add_to_user, when the
\* service answers status 400 the BadRequest error carries the text of the
\* response body verbatim.
C10_Original ==
    \A o \in {"sign_in", "create_token", "add_to_user"} :
        (Responded(o, 400) /\ outcome.readable) =>
            /\ ResultIsErr("BadRequest")
            /\ result.value = Some(outcome.body.text)

=============================================================================
